---- MODULE Spec2Model ----
(***************************************************************************)
(* WordpressAutoPost: the ledger (database.py) and the two front ends that *)
(* drive the file-to-post pipeline, the CLI runner (runner.py run_once)    *)
(* and the Tk front end (gui.py AutoPostGUI.run_mode).                     *)
(*                                                                         *)
(* Time is counted in minutes.  A Python datetime is a natural number,     *)
(* Python None is the value None, SQL NULL is the empty tuple, and a       *)
(* TIMESTAMP text stored in SQLite is the pair <<separator, time>>: the    *)
(* separator is "T" for datetime.isoformat() and " " for SQLite's          *)
(* CURRENT_TIMESTAMP.                                                      *)
(***************************************************************************)
EXTENDS Integers, Sequences, FiniteSets, TLC

\* ---------------------------------------------------------------- bounds
MaxClock == 1
MaxList == 2
MaxRuns == 2
PostCap == 2

\* ------------------------------------------------------ program constants
DEFAULT_SCHEDULE_OFFSET_MINUTES == 5

\* ------------------------------------------------------------- universes
FileIds == {"f1", "f2"}
FileNames == {"x.bin", "GPU-BoardView.bin"}
GuiWorkers == {"g1", "g2"}
Procs == {"cli"} \cup GuiWorkers
GuiModes == {"batch", "queue", "schedule", "other"}

None == -1
NULL == << >>

\* The name each file carries in the Drive folder.
DriveName(id) == IF id = "f1" THEN "GPU-BoardView.bin" ELSE "x.bin"

Descriptors == {[id |-> i, name |-> DriveName(i)] : i \in FileIds}
Listings == UNION {[1..n -> Descriptors] : n \in 0..MaxList}

\* The datetimes a caller of the Ledger passes to track_new_file.
Dates == {None} \cup {t + DEFAULT_SCHEDULE_OFFSET_MINUTES : t \in 0..MaxClock}

Min(a, b) == IF a < b THEN a ELSE b

VARIABLES
    db,            \* table scheduled_posts: file_id -> row, for the ids present
    now,           \* the wall clock, in minutes
    folder,        \* the files of the Drive folder, in the order the lister returns them
    pc,            \* where each worker stands in its run
    mode,          \* the mode each worker runs in
    idx,           \* position of each worker in the listing
    scheduled,     \* local variable 'scheduled' of each worker
    result,        \* what happened to the worker's current file
    log,           \* the Ledger calls the worker made for its current file
    posts,         \* history: successful create_post calls per file id (saturating)
    ledgerFailed,  \* history: some Ledger operation has failed
    runs,          \* number of runs started
    attempts,      \* history: handle_file / process_file calls of each worker's run, per file id
    api,           \* the last direct call of a Ledger operation
    pending,       \* the value the last get_pending_posts call returned
    wp             \* the last direct call of the pipeline: the services' behaviour,
                   \* the time of the call and the requests create_post submitted

vars == <<db, now, folder, pc, mode, idx, scheduled, result, log, posts,
          ledgerFailed, runs, attempts, api, pending, wp>>

\* ------------------------------------------------------------ database.py
isoformat(dt) == <<"T", dt>>

CURRENT_TIMESTAMP == <<" ", now>>

Has(d, file_id) == file_id \in DOMAIN d

\* Mutant: INSERT OR REPLACE in place of INSERT OR IGNORE.
track_new_file_Replace(d, file_id, file_name, scheduled_date) ==
    [x \in DOMAIN d \cup {file_id} |->
        IF x = file_id
        THEN [file_name |-> file_name,
              scheduled_date |-> IF scheduled_date # None
                                 THEN isoformat(scheduled_date)
                                 ELSE NULL,
              published |-> 0,
              published_at |-> NULL]
        ELSE d[x]]

\* Mutant: the scheduled date is not bound to the statement.
track_new_file_NoDate(d, file_id, file_name, scheduled_date) ==
    IF Has(d, file_id)
    THEN d
    ELSE [x \in DOMAIN d \cup {file_id} |->
            IF x = file_id
            THEN [file_name |-> file_name,
                  scheduled_date |-> NULL,
                  published |-> 0,
                  published_at |-> NULL]
            ELSE d[x]]

\* Mutant: the row is inserted with published = 1.
track_new_file_Published(d, file_id, file_name, scheduled_date) ==
    IF Has(d, file_id)
    THEN d
    ELSE [x \in DOMAIN d \cup {file_id} |->
            IF x = file_id
            THEN [file_name |-> file_name,
                  scheduled_date |-> IF scheduled_date # None
                                     THEN isoformat(scheduled_date)
                                     ELSE NULL,
                  published |-> 1,
                  published_at |-> NULL]
            ELSE d[x]]

track_new_file(d, file_id, file_name, scheduled_date) ==
    IF Has(d, file_id)
    THEN d
    ELSE [x \in DOMAIN d \cup {file_id} |->
            IF x = file_id
            THEN [file_name |-> file_name,
                  scheduled_date |-> IF scheduled_date # None
                                     THEN isoformat(scheduled_date)
                                     ELSE NULL,
                  published |-> 0,
                  published_at |-> NULL]
            ELSE d[x]]

\* Mutant: SET published_at only.
mark_as_published_StampOnly(d, file_id) ==
    [x \in DOMAIN d |->
        IF x = file_id
        THEN [d[x] EXCEPT !.published_at = CURRENT_TIMESTAMP]
        ELSE d[x]]

\* Mutant: SET published only.
mark_as_published_FlagOnly(d, file_id) ==
    [x \in DOMAIN d |->
        IF x = file_id
        THEN [d[x] EXCEPT !.published = 1]
        ELSE d[x]]

\* Mutant: INSERT OR REPLACE of a published row in place of the UPDATE.
mark_as_published_Upsert(d, file_id) ==
    [x \in DOMAIN d \cup {file_id} |->
        IF x = file_id
        THEN [file_name |-> IF Has(d, x) THEN d[x].file_name ELSE "",
              scheduled_date |-> IF Has(d, x) THEN d[x].scheduled_date ELSE NULL,
              published |-> 1,
              published_at |-> CURRENT_TIMESTAMP]
        ELSE d[x]]

mark_as_published(d, file_id) ==
    [x \in DOMAIN d |->
        IF x = file_id
        THEN [d[x] EXCEPT !.published = 1, !.published_at = CURRENT_TIMESTAMP]
        ELSE d[x]]

\* Mutant: the comparison of the flag is inverted.
is_file_processed_Inverted(d, file_id) ==
    IF ~Has(d, file_id) THEN FALSE ELSE d[file_id].published = 0

\* Mutant: any row counts as processed.
is_file_processed_AnyRow(d, file_id) == Has(d, file_id)

is_file_processed(d, file_id) ==
    IF ~Has(d, file_id) THEN FALSE ELSE d[file_id].published = 1


\* sqlite3's registered converter for a column declared TIMESTAMP splits the
\* stored text at a blank into a date part and a time part.
convert_timestamp_ok(val) == val[1] = " "

convert_timestamp(val) == val[2]

\* ORDER BY scheduled_date ASC: NULL sorts before every text, texts compare
\* bytewise (time first here, then the separator, " " before "T").
OrderedBefore(a, b) ==
    \/ a = NULL
    \/ /\ b # NULL
       /\ \/ a[2] < b[2]
          \/ a[2] = b[2] /\ (a[1] = b[1] \/ a[1] = " ")

PendingIds(d) == {x \in DOMAIN d : d[x].published = 0}

\* The values a call of get_pending_posts can return: rows with equal keys come
\* in an order the query leaves open; a row whose conversion raises makes the
\* whole call take the except branch and return [].
get_pending_posts(d) ==
    LET ids == PendingIds(d)
        n == Cardinality(ids)
        orders == {s \in [1..n -> ids] :
                     /\ \A i, j \in 1..n : i # j => s[i] # s[j]
                     /\ \A i, j \in 1..n :
                          i < j => OrderedBefore(d[s[i]].scheduled_date,
                                                 d[s[j]].scheduled_date)}
        raises == \E x \in ids : /\ d[x].scheduled_date # NULL
                                 /\ ~convert_timestamp_ok(d[x].scheduled_date)
    IN  IF raises
        THEN {<< >>}
        ELSE {[i \in 1..n |->
                 <<s[i], d[s[i]].file_name,
                   IF d[s[i]].scheduled_date = NULL
                   THEN None
                   ELSE convert_timestamp(d[s[i]].scheduled_date)>>] :
              s \in orders}

\* ------------------------------------------------------------ the services
\* How the remote services behave during one call of the pipeline: "fail" is
\* a missing key, a non-2xx answer or a network exception.
Service == {"ok", "fail"}
Remote == {"created", "http_error", "exception"}

Envs == [shortener : Service, llm : Service, metadata : Service,
         image : Service, publisher : Remote]

AllOk == [shortener |-> "ok", llm |-> "ok", metadata |-> "ok", image |-> "ok",
          publisher |-> "created"]

\* The id WordPress gives an uploaded image.
MediaId == 7

\* The publish dates a caller passes: none, past, the present minute, future.
PublishDates == {None} \cup (0..(MaxClock + 1))

\* f"https://drive.google.com/uc?id={file_id}&export=download"
file_link(file_id) == <<"long", file_id>>

\* exe_io_api.py
shorten_url(long_url, svc) ==
    IF svc = "ok" THEN <<"short", long_url[2]>> ELSE long_url

\* openrouter_api.py
get_brief_description(file_name, svc) == IF svc = "ok" THEN "brief" ELSE ""

\* google_drive.py
get_file_metadata(file_id, svc) ==
    IF svc = "ok"
    THEN [size |-> "1.5", mimeType |-> "application/octet-stream"]
    ELSE [size |-> "N/A", mimeType |-> "N/A"]

\* image_processor.py
set_featured_image_from_url(image_url, svc) ==
    IF svc = "ok" THEN MediaId ELSE None

\* dict.update
update(data, payload) ==
    [k \in DOMAIN data \cup DOMAIN payload |->
        IF k \in DOMAIN payload THEN payload[k] ELSE data[k]]

\* Mutant: a date equal to the present counts as future.
format_date_for_wp_Inclusive(dt) ==
    IF dt >= now
    THEN [date_gmt |-> isoformat(dt), status |-> "future"]
    ELSE [date_gmt |-> isoformat(dt)]

\* main.py: a naive datetime is read as UTC, as the callers' utcnow() is.
format_date_for_wp(dt) ==
    IF dt > now
    THEN [date_gmt |-> isoformat(dt), status |-> "future"]
    ELSE [date_gmt |-> isoformat(dt)]

\* wordpress_api.py create_post: the dict it hands to _post.
post_data(title, content, featured_media, publish_date, status) ==
    LET base == [title |-> title, content |-> content, status |-> status]
        media == IF featured_media # None
                 THEN update(base, [featured_media |-> featured_media])
                 ELSE base
    IN  IF publish_date # None
        THEN update(media, format_date_for_wp(publish_date))
        ELSE media

\* wordpress_api.py _post: the parsed answer ("ok") for a 200 or 201, None
\* ("empty") for any other status and for an exception of the request.
post(remote) == IF remote = "created" THEN "ok" ELSE "empty"

\* ------------------------------------------------------------------ state
NoAttempts == [f \in FileIds |-> 0]

NoLog == [chk |-> "-", trk |-> "-", mrk |-> "-"]

Init ==
    /\ db = [x \in {} |-> 0]
    /\ now = 0
    /\ folder \in Listings
    /\ pc = [p \in Procs |-> "idle"]
    /\ mode = [p \in Procs |-> "none"]
    /\ idx = [p \in Procs |-> 0]
    /\ scheduled = [p \in Procs |-> None]
    /\ result = [p \in Procs |-> "none"]
    /\ log = [p \in Procs |-> NoLog]
    /\ posts = [f \in FileIds |-> 0]
    /\ ledgerFailed = FALSE
    /\ runs = 0
    /\ attempts = [p \in Procs |-> NoAttempts]
    /\ api = [op |-> "none", id |-> "", name |-> "", date |-> None,
              fail |-> FALSE, ret |-> FALSE]
    /\ pending = << >>
    /\ wp = [env |-> AllOk, at |-> 0, posts |-> << >>]

Cur(p) == folder[idx[p]]

\* What a Ledger call did, for the worker's log.
TrackLog(d, file_id, fail) ==
    IF fail THEN "err" ELSE IF Has(d, file_id) THEN "nop" ELSE "ins"

MarkLog(d, file_id, fail) ==
    IF fail THEN "err" ELSE IF Has(d, file_id) THEN "upd" ELSE "nop"

\* One more call of handle_file / process_file for the worker's current file.
Attempted(p) == [attempts EXCEPT ![p][Cur(p).id] = @ + 1]

Published(f) == [posts EXCEPT ![f] = Min(@ + 1, PostCap)]

\* Mutant: the run enters the loop over the folder's files although the
\* lister returned none.
StartRun_IgnoresEmpty(p, m, listed) ==
    /\ runs' = runs + 1
    /\ mode' = [mode EXCEPT ![p] = m]
    /\ scheduled' = [scheduled EXCEPT ![p] = None]
    /\ result' = [result EXCEPT ![p] = IF listed = << >> THEN "nofiles" ELSE "none"]
    /\ log' = [log EXCEPT ![p] = NoLog]
    /\ attempts' = [attempts EXCEPT ![p] = NoAttempts]
    /\ IF folder = << >>
       THEN /\ pc' = [pc EXCEPT ![p] = "end"]
            /\ idx' = [idx EXCEPT ![p] = 0]
       ELSE /\ pc' = [pc EXCEPT ![p] = "check"]
            /\ idx' = [idx EXCEPT ![p] = 1]

\* A run begins: the mode is read and the folder listed; an empty listing (no
\* files, or the lister's fallback on an error) is reported and ends the run
\* at once.
StartRun(p, m, listed) ==
    /\ runs' = runs + 1
    /\ mode' = [mode EXCEPT ![p] = m]
    /\ scheduled' = [scheduled EXCEPT ![p] = None]
    /\ result' = [result EXCEPT ![p] = IF listed = << >> THEN "nofiles" ELSE "none"]
    /\ log' = [log EXCEPT ![p] = NoLog]
    /\ attempts' = [attempts EXCEPT ![p] = NoAttempts]
    /\ IF listed = << >>
       THEN /\ pc' = [pc EXCEPT ![p] = "end"]
            /\ idx' = [idx EXCEPT ![p] = 0]
       ELSE /\ pc' = [pc EXCEPT ![p] = "check"]
            /\ idx' = [idx EXCEPT ![p] = 1]

\* run_once cannot load its template: it reports that and returns before it
\* lists the folder.
NoTemplate(p, m) ==
    /\ runs' = runs + 1
    /\ mode' = [mode EXCEPT ![p] = m]
    /\ scheduled' = [scheduled EXCEPT ![p] = None]
    /\ result' = [result EXCEPT ![p] = "notemplate"]
    /\ log' = [log EXCEPT ![p] = NoLog]
    /\ attempts' = [attempts EXCEPT ![p] = NoAttempts]
    /\ pc' = [pc EXCEPT ![p] = "end"]
    /\ idx' = [idx EXCEPT ![p] = 0]

\* Mutant: the loop is left when something failed for the current file.
NextFile_AbortOnFailure(p) ==
    /\ pc[p] = "next"
    /\ scheduled' = [scheduled EXCEPT ![p] = None]
    /\ result' = [result EXCEPT ![p] = "none"]
    /\ log' = [log EXCEPT ![p] = NoLog]
    /\ IF /\ idx[p] < Len(folder)
          /\ result[p] \notin {"empty", "raise"}
          /\ "err" \notin {log[p].chk, log[p].trk, log[p].mrk}
       THEN /\ idx' = [idx EXCEPT ![p] = @ + 1]
            /\ pc' = [pc EXCEPT ![p] = "check"]
       ELSE /\ idx' = [idx EXCEPT ![p] = 0]
            /\ pc' = [pc EXCEPT ![p] = "end"]
    /\ UNCHANGED <<db, now, folder, mode, posts, ledgerFailed, runs, api, pending, attempts, wp>>

\* The bottom of the loop body: on to the next file, or out of the loop.
NextFile(p) ==
    /\ pc[p] = "next"
    /\ scheduled' = [scheduled EXCEPT ![p] = None]
    /\ result' = [result EXCEPT ![p] = "none"]
    /\ log' = [log EXCEPT ![p] = NoLog]
    /\ IF idx[p] < Len(folder)
       THEN /\ idx' = [idx EXCEPT ![p] = @ + 1]
            /\ pc' = [pc EXCEPT ![p] = "check"]
       ELSE /\ idx' = [idx EXCEPT ![p] = 0]
            /\ pc' = [pc EXCEPT ![p] = "end"]
    /\ UNCHANGED <<db, now, folder, mode, posts, ledgerFailed, runs, api, pending, attempts, wp>>

\* The run returns: the worker is free again.
Finish(p) ==
    /\ pc[p] = "end"
    /\ pc' = [pc EXCEPT ![p] = "idle"]
    /\ mode' = [mode EXCEPT ![p] = "none"]
    /\ result' = [result EXCEPT ![p] = "none"]
    /\ attempts' = [attempts EXCEPT ![p] = NoAttempts]
    /\ UNCHANGED <<db, now, folder, idx, scheduled, log, posts,
                   ledgerFailed, runs, api, pending, wp>>

\* --------------------------------------------------------------- main.py
\* The attributes class Config defines.
ConfigAttributes ==
    {"WP_SITE_URL", "WP_USER", "WP_PASSWORD", "WP_API_BASE",
     "GOOGLE_SERVICE_ACCOUNT_JSON_PATH", "GOOGLE_DRIVE_FOLDER_ID",
     "OPENROUTER_API_KEY", "EXE_IO_API_KEY", "HTTP_TIMEOUT_SECONDS",
     "DRIVE_PAGE_SIZE", "DEFAULT_SCHEDULE_OFFSET_MINUTES", "DATABASE_PATH",
     "BRAND_IMAGES_JSON"}

\* ------------------------------------------------------------- runner.py
\* "boardview" in file_name.lower()
is_boardview(file_name) == file_name = "GPU-BoardView.bin"

\* process_file: the enrichment calls, then the Config attribute that names the
\* category's preview image, then the render and create_post; publisher is what
\* create_post returns ("ok": a confirmation, "empty": None).  Reading an
\* attribute Config does not define raises AttributeError.
process_file(file_name, publisher) ==
    LET attr == IF is_boardview(file_name)
                THEN "DEFAULT_BOARDVIEW_IMAGE_URL"
                ELSE "DEFAULT_SCHEMATIC_IMAGE_URL"
    IN  IF attr \notin ConfigAttributes THEN "raise" ELSE publisher

download_label(file_name) ==
    IF is_boardview(file_name) THEN "Download Boardview" ELSE "Download Schematic"

\* The create_post requests one call of process_file submits.
process_file_posts(file_id, file_name, scheduled_date, env) ==
    LET short_link == shorten_url(file_link(file_id), env.shortener)
        description == get_brief_description(file_name, env.llm)
        file_metadata == get_file_metadata(file_id, env.metadata)
        attr == IF is_boardview(file_name)
                THEN "DEFAULT_BOARDVIEW_IMAGE_URL"
                ELSE "DEFAULT_SCHEMATIC_IMAGE_URL"
        featured_image_id == set_featured_image_from_url(attr, env.image)
        content == [file_name |-> file_name,
                    file_metadata |-> file_metadata,
                    download_link |-> short_link,
                    brief_description |-> description,
                    download_label |-> download_label(file_name)]
    IN  IF attr \notin ConfigAttributes
        THEN << >>
        ELSE <<post_data(file_name, content, featured_image_id,
                         scheduled_date, "publish")>>

\* run_once up to the loop: init_db, the template, the listing.
CliStart ==
    /\ pc["cli"] = "idle"
    /\ runs < MaxRuns
    /\ \E schedule \in BOOLEAN :
         LET m == IF schedule THEN "schedule" ELSE "batch"
         IN  \/ NoTemplate("cli", m)
             \/ \E listed \in {folder, << >>} : StartRun("cli", m, listed)
    /\ UNCHANGED <<db, now, folder, posts, ledgerFailed, api, pending, wp>>

\* if is_file_processed(file_id): continue
CliCheck ==
    /\ pc["cli"] = "check"
    /\ \E fail \in BOOLEAN :
         /\ ledgerFailed' = (ledgerFailed \/ fail)
         /\ log' = [log EXCEPT !["cli"].chk = IF fail THEN "err" ELSE "ok"]
         /\ IF ~fail /\ is_file_processed(db, Cur("cli").id)
            THEN /\ pc' = [pc EXCEPT !["cli"] = "next"]
                 /\ result' = [result EXCEPT !["cli"] = "skipped"]
            ELSE /\ pc' = [pc EXCEPT !["cli"] = "process"]
                 /\ result' = result
    /\ UNCHANGED <<db, now, folder, mode, idx, scheduled, posts, runs, api, pending, attempts, wp>>

\* The try block of run_once for one file.
CliProcess ==
    /\ pc["cli"] = "process"
    /\ \E publisher \in {"ok", "empty"} :
         LET f == Cur("cli")
             date == IF mode["cli"] = "schedule"
                     THEN now + DEFAULT_SCHEDULE_OFFSET_MINUTES
                     ELSE None
             r == process_file(f.name, publisher)
         IN  /\ scheduled' = [scheduled EXCEPT !["cli"] = date]
             /\ result' = [result EXCEPT !["cli"] = r]
             /\ IF r = "ok"
                THEN /\ db' = mark_as_published(
                                track_new_file(db, f.id, f.name,
                                    IF mode["cli"] = "schedule" THEN date ELSE now),
                                f.id)
                     /\ posts' = Published(f.id)
                     /\ log' = [log EXCEPT !["cli"].trk = TrackLog(db, f.id, FALSE),
                                           !["cli"].mrk = "upd"]
                ELSE UNCHANGED <<db, posts, log>>
    /\ attempts' = Attempted("cli")
    /\ pc' = [pc EXCEPT !["cli"] = "next"]
    /\ UNCHANGED <<now, folder, mode, idx, ledgerFailed, runs, api, pending, wp>>

\* ---------------------------------------------------------------- gui.py
\* The create_post requests one call of handle_file submits.
handle_file_posts(file_id, file_name, scheduled_date, env) ==
    LET short_link == shorten_url(file_link(file_id), env.shortener)
        description == get_brief_description(file_name, env.llm)
        image_url == IF is_boardview(file_name)
                     THEN "boardview-default.jpg"
                     ELSE "schematic-default.jpg"
        featured_image_id == set_featured_image_from_url(image_url, env.image)
        content == [file_name |-> file_name,
                    download_link |-> short_link,
                    brief_description |-> description,
                    download_label |-> download_label(file_name)]
    IN  <<post_data(file_name, content, featured_image_id,
                    scheduled_date, "publish")>>

\* start_process and run_mode up to the loop.
GuiStart(p) ==
    /\ pc[p] = "idle"
    /\ runs < MaxRuns
    /\ \E m \in GuiModes, listed \in {folder, << >>} : StartRun(p, m, listed)
    /\ UNCHANGED <<db, now, folder, posts, ledgerFailed, api, pending, wp>>

\* if is_file_processed(file_id): continue; else the branch on mode.
GuiCheck(p) ==
    /\ pc[p] = "check"
    /\ \E fail \in BOOLEAN :
         /\ ledgerFailed' = (ledgerFailed \/ fail)
         /\ log' = [log EXCEPT ![p].chk = IF fail THEN "err" ELSE "ok"]
         /\ IF ~fail /\ is_file_processed(db, Cur(p).id)
            THEN /\ pc' = [pc EXCEPT ![p] = "next"]
                 /\ result' = [result EXCEPT ![p] = "skipped"]
            ELSE IF mode[p] \in {"batch", "schedule"}
            THEN /\ pc' = [pc EXCEPT ![p] = "handle"]
                 /\ result' = result
            ELSE IF mode[p] = "queue"
            THEN /\ pc' = [pc EXCEPT ![p] = "track"]
                 /\ result' = result
            ELSE /\ pc' = [pc EXCEPT ![p] = "next"]
                 /\ result' = [result EXCEPT ![p] = "unknown"]
    /\ UNCHANGED <<db, now, folder, mode, idx, scheduled, posts, runs, api, pending, attempts, wp>>

\* handle_file, with 'scheduled' computed just before it in schedule mode.  An
\* exception (the render, a status callback) is caught by run_mode's except.
GuiHandle(p) ==
    /\ pc[p] = "handle"
    /\ \E outcome \in {"ok", "empty", "raise"} :
         /\ scheduled' = [scheduled EXCEPT ![p] =
                IF mode[p] = "schedule"
                THEN now + DEFAULT_SCHEDULE_OFFSET_MINUTES
                ELSE None]
         /\ result' = [result EXCEPT ![p] = outcome]
         /\ posts' = IF outcome = "ok" THEN Published(Cur(p).id) ELSE posts
         /\ pc' = [pc EXCEPT ![p] =
                IF outcome = "raise" THEN "next"
                ELSE IF mode[p] = "batch" THEN "mark" ELSE "track"]
    /\ attempts' = Attempted(p)
    /\ UNCHANGED <<db, now, folder, mode, idx, log, ledgerFailed, runs, api, pending, wp>>

\* track_new_file(file_id, file_name, scheduled), or (..., None) in queue mode.
GuiTrack(p) ==
    /\ pc[p] = "track"
    /\ \E fail \in BOOLEAN :
         /\ db' = IF fail THEN db
                  ELSE track_new_file(db, Cur(p).id, Cur(p).name, scheduled[p])
         /\ log' = [log EXCEPT ![p].trk = TrackLog(db, Cur(p).id, fail)]
         /\ ledgerFailed' = (ledgerFailed \/ fail)
    /\ IF mode[p] = "queue"
       THEN /\ pc' = [pc EXCEPT ![p] = "next"]
            /\ result' = [result EXCEPT ![p] = "queued"]
       ELSE /\ pc' = [pc EXCEPT ![p] = "mark"]
            /\ result' = result
    /\ UNCHANGED <<now, folder, mode, idx, scheduled, posts, runs, api, pending, attempts, wp>>

\* mark_as_published(file_id)
GuiMark(p) ==
    /\ pc[p] = "mark"
    /\ \E fail \in BOOLEAN :
         /\ db' = IF fail THEN db ELSE mark_as_published(db, Cur(p).id)
         /\ log' = [log EXCEPT ![p].mrk = MarkLog(db, Cur(p).id, fail)]
         /\ ledgerFailed' = (ledgerFailed \/ fail)
    /\ pc' = [pc EXCEPT ![p] = "next"]
    /\ UNCHANGED <<now, folder, mode, idx, scheduled, result, posts, runs, api, pending, attempts, wp>>

\* ------------------------------------------------------------ environment
Tick ==
    /\ now < MaxClock
    /\ now' = now + 1
    /\ UNCHANGED <<db, folder, pc, mode, idx, scheduled, result, log, posts,
                   ledgerFailed, runs, api, pending, attempts, wp>>

\* The operating system ends a process (the CLI, or the front end with its
\* daemon threads) between two statements of a run.
Terminate(ps) ==
    /\ \E p \in ps : pc[p] \notin {"idle", "end"}
    /\ pc' = [p \in Procs |-> IF p \in ps THEN "idle" ELSE pc[p]]
    /\ mode' = [p \in Procs |-> IF p \in ps THEN "none" ELSE mode[p]]
    /\ idx' = [p \in Procs |-> IF p \in ps THEN 0 ELSE idx[p]]
    /\ scheduled' = [p \in Procs |-> IF p \in ps THEN None ELSE scheduled[p]]
    /\ result' = [p \in Procs |-> IF p \in ps THEN "none" ELSE result[p]]
    /\ log' = [p \in Procs |-> IF p \in ps THEN NoLog ELSE log[p]]
    /\ attempts' = [p \in Procs |-> IF p \in ps THEN NoAttempts ELSE attempts[p]]
    /\ UNCHANGED <<db, now, folder, posts, ledgerFailed, runs, api, pending, wp>>

Next ==
    \/ CliStart
    \/ CliCheck
    \/ CliProcess
    \/ \E p \in GuiWorkers : GuiStart(p)
    \/ \E p \in GuiWorkers : GuiCheck(p)
    \/ \E p \in GuiWorkers : GuiHandle(p)
    \/ \E p \in GuiWorkers : GuiTrack(p)
    \/ \E p \in GuiWorkers : GuiMark(p)
    \/ \E p \in Procs : NextFile(p)
    \/ \E p \in Procs : Finish(p)
    \/ Tick
    \/ Terminate({"cli"})
    \/ Terminate(GuiWorkers)

Spec == Init /\ [][Next]_vars

\* ------------------------------------------- direct calls of the Ledger
\* A caller other than the two front ends (a test, a maintenance script) calls
\* one Ledger operation; fail: the operation's sqlite3 call raises and the
\* except branch returns the operation's default.
Call(op, id, name, date, fail, ret) ==
    /\ api' = [op |-> op, id |-> id, name |-> name, date |-> date,
               fail |-> fail, ret |-> ret]
    /\ ledgerFailed' = (ledgerFailed \/ fail)

ApiTrack ==
    /\ \E id \in FileIds, name \in FileNames, date \in Dates, fail \in BOOLEAN :
         /\ db' = IF fail THEN db ELSE track_new_file(db, id, name, date)
         /\ Call("track", id, name, date, fail, FALSE)
    /\ UNCHANGED <<now, folder, pc, mode, idx, scheduled, result, log, posts,
                   runs, pending, attempts, wp>>

ApiMark ==
    /\ \E id \in FileIds, fail \in BOOLEAN :
         /\ db' = IF fail THEN db ELSE mark_as_published(db, id)
         /\ Call("mark", id, "", None, fail, FALSE)
    /\ UNCHANGED <<now, folder, pc, mode, idx, scheduled, result, log, posts,
                   runs, pending, attempts, wp>>

ApiIsProcessed ==
    /\ \E id \in FileIds, fail \in BOOLEAN :
         Call("processed", id, "", None, fail,
              IF fail THEN FALSE ELSE is_file_processed(db, id))
    /\ UNCHANGED <<db, now, folder, pc, mode, idx, scheduled, result, log, posts,
                   runs, pending, attempts, wp>>

ApiPending ==
    /\ \E fail \in BOOLEAN :
         /\ pending' \in (IF fail THEN {<< >>} ELSE get_pending_posts(db))
         /\ Call("pending", "", "", None, fail, FALSE)
    /\ UNCHANGED <<db, now, folder, pc, mode, idx, scheduled, result, log, posts,
                   runs, attempts, wp>>

NextLedger ==
    \/ ApiTrack
    \/ ApiMark
    \/ ApiIsProcessed
    \/ ApiPending
    \/ Tick

InitLedger == Init /\ folder = << >>

SpecLedger == InitLedger /\ [][NextLedger]_vars

\* ---------------------------------------- direct calls of the pipeline
\* A caller calls process_file, handle_file or create_post once, the services
\* behaving as env says.
ApiProcessFile ==
    /\ \E id \in FileIds, date \in PublishDates, env \in Envs :
         LET name == DriveName(id)
             r == process_file(name, post(env.publisher))
         IN  /\ wp' = [env |-> env, at |-> now,
                       posts |-> process_file_posts(id, name, date, env)]
             /\ api' = [op |-> "process_file", id |-> id, name |-> name,
                        date |-> date, fail |-> (r = "raise"), ret |-> (r = "ok")]
    /\ UNCHANGED <<db, now, folder, pc, mode, idx, scheduled, result, log, posts,
                   ledgerFailed, runs, attempts, pending>>

ApiHandleFile ==
    /\ \E id \in FileIds, date \in PublishDates, env \in Envs :
         /\ wp' = [env |-> env, at |-> now,
                   posts |-> handle_file_posts(id, DriveName(id), date, env)]
         /\ api' = [op |-> "handle_file", id |-> id, name |-> DriveName(id),
                    date |-> date, fail |-> FALSE, ret |-> FALSE]
    /\ UNCHANGED <<db, now, folder, pc, mode, idx, scheduled, result, log, posts,
                   ledgerFailed, runs, attempts, pending>>

ApiCreatePost ==
    /\ \E title \in FileNames, media \in {None, MediaId}, date \in PublishDates,
          remote \in Remote :
         /\ wp' = [env |-> [AllOk EXCEPT !.publisher = remote], at |-> now,
                   posts |-> <<post_data(title, "content", media, date, "publish")>>]
         /\ api' = [op |-> "create_post", id |-> "", name |-> title,
                    date |-> date, fail |-> FALSE, ret |-> (post(remote) = "ok")]
    /\ UNCHANGED <<db, now, folder, pc, mode, idx, scheduled, result, log, posts,
                   ledgerFailed, runs, attempts, pending>>

NextPipeline ==
    \/ ApiProcessFile
    \/ ApiHandleFile
    \/ ApiCreatePost
    \/ Tick

SpecPipeline == InitLedger /\ [][NextPipeline]_vars

\* Runs one after the other, each to its end: a run starts only when no other
\* is under way, and no process is ended from outside.
Alone == \A p \in Procs : pc[p] = "idle"

NextSeq ==
    \/ Alone /\ CliStart
    \/ CliCheck
    \/ CliProcess
    \/ \E p \in GuiWorkers : Alone /\ GuiStart(p)
    \/ \E p \in GuiWorkers : GuiCheck(p)
    \/ \E p \in GuiWorkers : GuiHandle(p)
    \/ \E p \in GuiWorkers : GuiTrack(p)
    \/ \E p \in GuiWorkers : GuiMark(p)
    \/ \E p \in Procs : NextFile(p)
    \/ \E p \in Procs : Finish(p)
    \/ Tick

SpecSeq == Init /\ [][NextSeq]_vars

\* The statements of one worker's run.  A worker thread, once started, runs on:
\* every call it makes returns (each network call has the fixed timeout
\* Config.HTTP_TIMEOUT_SECONDS, each Ledger operation returns or raises).
WorkerStep(p) ==
    \/ p = "cli" /\ (CliCheck \/ CliProcess)
    \/ p \in GuiWorkers /\ (GuiCheck(p) \/ GuiHandle(p) \/ GuiTrack(p) \/ GuiMark(p))
    \/ NextFile(p)
    \/ Finish(p)

SpecLive == SpecSeq /\ \A p \in Procs : WF_vars(WorkerStep(p))

\* ================================================================ claims
\* The row of an id says published.
RowPublished(d, f) == Has(d, f) /\ d[f].published = 1

NoDuplicates(fs) == \A i, j \in 1..Len(fs) : i # j => fs[i].id # fs[j].id

Immediate(p) == mode[p] = "batch"
Scheduled(p) == mode[p] = "schedule"

\* C1: over runs that follow one another with no Ledger operation failing and
\* a listing that names each file once, create_post succeeds at most once per
\* file id.
C1_PublishedAtMostOnce ==
    (~ledgerFailed /\ NoDuplicates(folder)) => \A f \in FileIds : posts[f] <= 1

\* C2: in immediate and scheduled mode, when the enrich-and-publish sequence
\* of a file failed, the file is not processed once the run is done with it.
C2_NoRecordOnFailure ==
    \A p \in Procs :
        ( /\ pc[p] = "next"
          /\ Immediate(p) \/ Scheduled(p)
          /\ result[p] \in {"empty", "raise"}
          /\ log[p].chk = "ok" )
        => ~RowPublished(db, Cur(p).id)

\* C3: in immediate mode, a file that was not processed and whose Publisher
\* call succeeded is processed once the run is done with it (no Ledger
\* operation having failed for it).
C3_ProcessedAfterSuccess ==
    \A p \in Procs :
        ( /\ pc[p] = "next"
          /\ Immediate(p)
          /\ result[p] = "ok"
          /\ log[p].chk = "ok"
          /\ log[p].mrk # "err" )
        => RowPublished(db, Cur(p).id)

\* A worker takes its check step: it leaves "check" by its own statement.
Checks(p) == pc[p] = "check" /\ pc'[p] \notin {"check", "idle"}

Skips(p) ==
    /\ pc'[p] = "next"
    /\ result'[p] = "skipped"
    /\ db' = db
    /\ posts' = posts

\* C4 (as stated): a listed file whose entry says published is skipped by the
\* check of a run in any mode, with no Publisher call and no Ledger write.
C4_Original ==
    [][\A p \in Procs :
         (Checks(p) /\ RowPublished(db, Cur(p).id)) => Skips(p)]_vars

\* C4 (amended): a listed file whose entry says published is skipped by the
\* check of a run in any mode, with no Publisher call and no Ledger write,
\* when the is_file_processed query of that check does not fail.
C4_SkipsPublished ==
    [][\A p \in Procs :
         (Checks(p) /\ log'[p].chk = "ok" /\ RowPublished(db, Cur(p).id))
         => Skips(p)]_vars

C4_Witness ==
    \E p \in Procs :
        /\ pc[p] = "next"
        /\ result[p] = "skipped"
        /\ log[p].chk = "ok"
        /\ RowPublished(db, Cur(p).id)

\* What track_new_file stores for a datetime.
Stored(date) == IF date = None THEN NULL ELSE <<"T", date>>

\* C5: track on an id that has an entry leaves the table as it is, whatever
\* the name and the date: the stored file_name, scheduled_date, published and
\* published_at stay, and no entry is added.
C5_TrackFirstWriteWins ==
    [][(api'.op = "track" /\ Has(db, api'.id)) => db' = db]_vars

C5_Witness ==
    /\ api.op = "track"
    /\ ~api.fail
    /\ Has(db, api.id)
    /\ db[api.id].file_name # api.name
    /\ db[api.id].scheduled_date # Stored(api.date)

\* C6 (as stated): in every state after a markPublished(id) call,
\* isProcessed(id) is true.
C6_Original ==
    (api.op = "mark" /\ ~api.fail) => RowPublished(db, api.id)

\* C6 (amended): isProcessed(id) turns true only by a markPublished(id) call;
\* after a markPublished(id) call that did not fail, made for an id that has
\* an entry, it is true, and it stays true whatever is called next (a repeated
\* markPublished included); an is_file_processed call that does not fail
\* returns exactly that.
C6_ProcessedAfterMark ==
    /\ [](/\ (api.op = "mark" /\ ~api.fail /\ Has(db, api.id))
             => RowPublished(db, api.id)
          /\ (api.op = "processed" /\ ~api.fail)
             => (api.ret <=> RowPublished(db, api.id)))
    /\ [][\A f \in FileIds :
            /\ (~RowPublished(db, f) /\ RowPublished(db', f))
               => (api'.op = "mark" /\ api'.id = f)
            /\ RowPublished(db, f) => RowPublished(db', f)]_vars

C6_Witness ==
    /\ api.op = "processed"
    /\ ~api.fail
    /\ api.ret
    /\ db[api.id].published_at # NULL

\* C7: markPublished for an id with no entry changes nothing: no entry is
\* created and no other entry changes.
C7_MarkAbsentIsNoOp ==
    [][(api'.op = "mark" /\ ~Has(db, api'.id)) => db' = db]_vars

C7_Witness ==
    /\ api.op = "mark"
    /\ ~api.fail
    /\ ~Has(db, api.id)
    /\ DOMAIN db # {}

\* C8: every entry has published_at non-null exactly when published is true,
\* a run ended from outside between two Ledger statements included.
C8_PublishedAtIffPublished ==
    \A f \in DOMAIN db : (db[f].published_at # NULL) <=> (db[f].published = 1)

\* A scheduled run was ended between its track and its mark, after another
\* file was marked.
C8_Witness ==
    /\ \A p \in Procs : pc[p] = "idle"
    /\ \E f, g \in DOMAIN db :
         /\ db[f].published = 1
         /\ db[g].published = 0
         /\ db[g].scheduled_date # NULL

\* The sequences C9 allows: the unpublished entries, each once, as
\* (file_id, file_name, scheduled_date), null dates first, dates ascending.
ExpectedPending(d) ==
    LET ids == {x \in DOMAIN d : d[x].published = 0}
        n == Cardinality(ids)
        Date(x) == IF d[x].scheduled_date = NULL THEN None
                   ELSE d[x].scheduled_date[2]
    IN  {[i \in 1..n |-> <<s[i], d[s[i]].file_name, Date(s[i])>>] :
         s \in {t \in [1..n -> ids] :
                  /\ \A i, j \in 1..n : i # j => t[i] # t[j]
                  /\ \A i, j \in 1..n : i < j => Date(t[i]) <= Date(t[j])}}

\* C9: a get_pending_posts call that does not fail returns exactly the
\* unpublished entries, null dates first and dates ascending.
C9_PendingExact ==
    (api.op = "pending" /\ ~api.fail) => pending \in ExpectedPending(db)

\* C10 (as stated): in scheduled mode, a file that the check found unprocessed
\* and whose Publisher call succeeded has, after the run's Ledger calls (none
\* of them failing), an entry with published true and the date the run
\* computed.
C10_Original ==
    \A p \in Procs :
        ( /\ pc[p] = "next"
          /\ Scheduled(p)
          /\ result[p] = "ok"
          /\ log[p].chk = "ok"
          /\ log[p].trk # "err"
          /\ log[p].mrk # "err" )
        => /\ RowPublished(db, Cur(p).id)
           /\ db[Cur(p).id].scheduled_date = Stored(scheduled[p])

\* C10 (amended): in scheduled mode, a file whose Publisher call succeeded and
\* that had no entry when the run's track call ran has, after the run's mark
\* (neither call failing), an entry with published true and the date the run
\* computed and passed to the Publisher; a file that had an entry is marked
\* published all the same.
C10_ScheduledRecorded ==
    \A p \in Procs :
        ( /\ pc[p] = "next"
          /\ Scheduled(p)
          /\ result[p] = "ok"
          /\ log[p].trk \in {"ins", "nop"}
          /\ log[p].mrk # "err" )
        => /\ RowPublished(db, Cur(p).id)
           /\ log[p].trk = "ins"
              => db[Cur(p).id].scheduled_date = Stored(scheduled[p])

C10_Witness ==
    \E p \in Procs :
        /\ pc[p] = "next"
        /\ Scheduled(p)
        /\ result[p] = "ok"
        /\ log[p].trk = "ins"
        /\ log[p].mrk = "upd"
        /\ scheduled[p] > DEFAULT_SCHEDULE_OFFSET_MINUTES

Queue(p) == mode[p] = "queue"

\* The entry queue mode leaves for a file it saw first.
QueuedRow(name) ==
    [file_name |-> name, scheduled_date |-> NULL, published |-> 0,
     published_at |-> NULL]

Listed(f) == \E i \in 1..Len(folder) : folder[i].id = f

\* C12: within one run in immediate or scheduled mode, no Ledger operation
\* having failed, the enrich-and-publish sequence is attempted at most once
\* for each file id, whatever the listing (an id listed twice included), and
\* never for an id that is not listed.
C12_AttemptedOnce ==
    \A p \in Procs :
        ((Immediate(p) \/ Scheduled(p)) /\ ~ledgerFailed)
        => \A f \in FileIds :
              /\ attempts[p][f] <= 1
              /\ ~Listed(f) => attempts[p][f] = 0

InFile == {"check", "process", "handle", "track", "mark", "next"}

\* Something failed while the worker's current file was processed: the
\* Publisher returned nothing, handle_file / process_file raised, or a Ledger
\* operation failed.
Failed(p) ==
    \/ result[p] \in {"empty", "raise"}
    \/ "err" \in {log[p].chk, log[p].trk, log[p].mrk}

\* C13: whatever failed while the file at position i was processed, the run
\* goes on: the file at position i + 1 is checked next, its check leads to
\* the processing its mode and entry call for, and after the last position
\* the run returns.
C13_FailureIsolated ==
    /\ \A p \in Procs : \A i \in 1..MaxList :
          (pc[p] \in InFile /\ idx[p] = i /\ Failed(p))
          ~> IF i < Len(folder)
             THEN pc[p] = "check" /\ idx[p] = i + 1 /\ log[p] = NoLog
             ELSE pc[p] = "end"
    /\ \A p \in Procs : (pc[p] \in InFile) ~> (pc[p] = "idle")

\* The first file's publish failed and the second file was published after it.
C13_Witness ==
    \E p \in Procs :
        /\ pc[p] = "next"
        /\ idx[p] = 2
        /\ folder[1].id # folder[2].id
        /\ attempts[p][folder[1].id] = 1
        /\ posts[folder[1].id] = 0
        /\ result[p] = "ok"

\* C14: whatever combination of the link shortener, the text generation, the
\* metadata fetch and the image upload fails, one call of the
\* enrich-and-publish sequence submits exactly one post, titled with the file
\* name, with the unshortened link when shortening failed, an empty
\* description when text generation failed and no media reference when the
\* upload failed; process_file returns success exactly when the Publisher
\* answered with a confirmation.
C14_DegradedPublish ==
    (api.op \in {"process_file", "handle_file"})
    => /\ Len(wp.posts) = 1
       /\ wp.posts[1].title = api.name
       /\ wp.env.shortener = "fail"
          => wp.posts[1].content.download_link = file_link(api.id)
       /\ wp.env.llm = "fail" => wp.posts[1].content.brief_description = ""
       /\ wp.env.image = "fail" => "featured_media" \notin DOMAIN wp.posts[1]
       /\ api.op = "process_file"
          => /\ ~api.fail
             /\ api.ret <=> (wp.env.publisher = "created")

\* C15: create_post called with a publish date later than the time of the
\* call submits the post with status 'future' and that date; with a date not
\* later, or with none, it submits it with status 'publish'; it returns the
\* confirmation when the site answered with one and None on any remote
\* failure, and never raises.
C15_FutureOrPublish ==
    (api.op = "create_post")
    => /\ Len(wp.posts) = 1
       /\ IF api.date # None /\ api.date > wp.at
          THEN /\ wp.posts[1].status = "future"
               /\ wp.posts[1].date_gmt = isoformat(api.date)
          ELSE wp.posts[1].status = "publish"
       /\ ~api.fail
       /\ api.ret <=> (wp.env.publisher = "created")

\* A post dated for the present minute, after the clock has moved once, and a
\* site that answers with an error.
C15_Witness ==
    /\ api.op = "create_post"
    /\ wp.at > 0
    /\ api.date = wp.at
    /\ wp.posts[1].status = "publish"
    /\ wp.env.publisher # "created"
    /\ ~api.ret

\* C16: whatever the sequence of Start actions, at most one worker of the
\* graphical front end is inside run_mode at any time.
C16_SingleWorker ==
    \A p, q \in GuiWorkers : p # q => (pc[p] = "idle" \/ pc[q] = "idle")

\* C17: a run whose listing came back empty does nothing and returns: it is
\* at its end at once, with no handle_file / process_file call and no Ledger
\* call made; no step taken while it is there writes the Ledger or calls the
\* Publisher, and its next step is the return.  With an empty folder every
\* run is such a run.
C17_EmptyListingNoWork ==
    /\ [](\A p \in Procs :
            /\ result[p] = "nofiles"
               => (pc[p] = "end" /\ attempts[p] = NoAttempts /\ log[p] = NoLog)
            /\ (folder = << >> /\ pc[p] # "idle")
               => result[p] \in {"nofiles", "notemplate"})
    /\ [][\A p \in Procs :
            /\ result'[p] = "nofiles" => (db' = db /\ posts' = posts)
            /\ (result[p] = "nofiles" /\ pc'[p] # pc[p]) => pc'[p] = "idle"]_vars

\* The folder has files and the Ledger an entry, and the lister came back
\* with nothing (its fallback on an error).
C17_Witness ==
    \E p \in Procs :
        /\ pc[p] = "end"
        /\ result[p] = "nofiles"
        /\ folder # << >>
        /\ DOMAIN db # {}

\* The entry queue mode made for a file: not published, no date.
Queued(d, f) == Has(d, f) /\ d[f].published = 0 /\ d[f].scheduled_date = NULL

\* C18 (as stated): no step of any run calls the Publisher for a queued file
\* or marks its entry published.
C18_Original ==
    [][\A f \in FileIds :
         Queued(db, f) => (posts'[f] = posts[f] /\ ~RowPublished(db', f))]_vars

\* C18 (amended): a queued file is published and marked only by a run in
\* immediate or scheduled mode, never by a queue run; such a run does pick it
\* up: its check finds the file unprocessed and hands it to handle_file /
\* process_file, and the mark that follows in the graphical front end sets
\* published and published_at on the queued entry, whose name and null date
\* stay.
C18_QueuedPickedUpLater ==
    /\ [][\A f \in FileIds :
            (Queued(db, f) /\ (posts'[f] # posts[f] \/ RowPublished(db', f)))
            => \E p \in Procs : /\ Immediate(p) \/ Scheduled(p)
                                /\ pc[p] \in {"handle", "mark"}
                                /\ Cur(p).id = f]_vars
    /\ [][\A p \in Procs :
            ( /\ Checks(p)
              /\ Immediate(p) \/ Scheduled(p)
              /\ Queued(db, Cur(p).id) )
            => pc'[p] \in {"handle", "process"}]_vars
    /\ [][\A p \in GuiWorkers :
            ( /\ pc[p] = "mark"
              /\ pc'[p] = "next"
              /\ log'[p].mrk # "err"
              /\ Queued(db, Cur(p).id) )
            => db'[Cur(p).id] = [db[Cur(p).id] EXCEPT
                                    !.published = 1,
                                    !.published_at = <<" ", now>>]]_vars

\* A file queued by an earlier run has been published and marked by a run in
\* immediate mode.
C18_Witness ==
    \E p \in GuiWorkers :
        /\ pc[p] = "next"
        /\ Immediate(p)
        /\ result[p] = "ok"
        /\ log[p].mrk = "upd"
        /\ RowPublished(db, Cur(p).id)
        /\ db[Cur(p).id].scheduled_date = NULL
        /\ posts[Cur(p).id] = 1

====
